---- MODULE Spec2Model ----
(***************************************************************************)
(* Model of milestone_content/build_dataset_obama.py: the border trimmer   *)
(* (trim), the load-trim-composite-save pipeline (deborder_and_save) and   *)
(* the dataset splitter/writer (the __main__ block).                       *)
(*                                                                         *)
(* File names and paths are sequences of one-character strings, so that    *)
(* endswith, slicing, joining and lexicographic sorting are computed.      *)
(* Images are records [mode, w, h, px] with px a function from <<x, y>>    *)
(* (0-based, as in PIL) to a tuple of 8-bit band values.                   *)
(***************************************************************************)
EXTENDS Integers, Sequences, FiniteSets, TLC

VARIABLES
    alphaOnly,  \* imaging library: getbbox looks at the alpha band only (Pillow >= 7.1) or at all bands
    dataKind,   \* what args.data_dir names: "dir", "file" or "absent"
    listing,    \* os.listdir(data_dir), in the order the file system returns it
    disk,       \* contents of the entries of data_dir (by entry name)
    seedArg,    \* args.seed (a string)
    outKind,    \* what args.output_dir names: "absent", "dir" or "file"
    splitKind,  \* what output_dir/<split>_spec names, per split
    files,      \* per split: the files in output_dir/<split>_spec, name -> contents
    tree0,      \* the output tree when the current run started
    pc,         \* position of the script
    filenames,  \* the list `filenames` (lines 68-76)
    rng,        \* state of the process-wide random generator
    splits,     \* the dict `filenames` of lines 85-87
    si,         \* index of the split of the loop of line 95
    fi,         \* index of the file of the loop of line 103
    log,        \* mkdir / save / print events in program order
    error,      \* the uncaught exception that ended the run ("" if none)
    prev,       \* the listing and the splits of the previous run, if it got to compute them
    tpc,        \* trim applied to a single image: position
    tIm,        \* trim: the input image
    tDiff,      \* trim: the amplified difference image (line 30)
    tBox,       \* trim: the bounding box (line 31)
    tOut        \* trim: the returned value

mainVars == <<dataKind, listing, disk, seedArg, outKind, splitKind, files, tree0,
              pc, filenames, rng, splits, si, fi, log, error, prev>>
trimVars == <<tpc, tIm, tDiff, tBox, tOut>>
vars == <<alphaOnly, mainVars, trimVars>>

----------------------------------------------------------------------------
(* Bounds of the model *)

\* number of .png files in data_dir is 0..MaxFiles
MaxFiles == 10
\* trim is applied to images of width and height 1..MaxDim
MaxDim == 2

----------------------------------------------------------------------------
(* Strings *)

\* the characters used, in ASCII order
Chars == <<".", "/", "0", "1", "2", "3", "4", "5", "6", "7", "8", "9", "_",
           "a", "d", "e", "g", "i", "j", "l", "m", "n", "o", "p", "r", "s", "t", "u", "v", "x">>

Ord(c) == CHOOSE i \in 1..Len(Chars) : Chars[i] = c

\* s < t for Python strings (lexicographic by code point)
RECURSIVE StrLess(_, _)
StrLess(s, t) ==
    IF t = <<>> THEN FALSE
    ELSE IF s = <<>> THEN TRUE
    ELSE IF s[1] # t[1] THEN Ord(s[1]) < Ord(t[1])
    ELSE StrLess(Tail(s), Tail(t))

\* s.endswith(suffix)
EndsWith(s, suffix) ==
    /\ Len(s) >= Len(suffix)
    /\ SubSeq(s, Len(s) - Len(suffix) + 1, Len(s)) = suffix

\* os.path.join(a, b) for a relative b
PathJoin(a, b) ==
    IF a = <<>> \/ a[Len(a)] = "/" THEN a \o b ELSE a \o <<"/">> \o b

\* s.split('/')[-1]
RECURSIVE LastComponent(_)
LastComponent(s) ==
    IF \E i \in 1..Len(s) : s[i] = "/"
    THEN LastComponent(SubSeq(s, (CHOOSE i \in 1..Len(s) : s[i] = "/") + 1, Len(s)))
    ELSE s

\* s[:-3]
DropLast3(s) == SubSeq(s, 1, Len(s) - 3)

DigitChars == <<"0", "1", "2", "3", "4", "5", "6", "7", "8", "9">>

\* str(n) for n >= 0
RECURSIVE IntToStr(_)
IntToStr(n) ==
    IF n < 10 THEN <<DigitChars[n + 1]>>
    ELSE IntToStr(n \div 10) \o <<DigitChars[(n % 10) + 1]>>

IsDigit(c) == \E d \in 1..10 : DigitChars[d] = c
DigitVal(c) == (CHOOSE d \in 1..10 : DigitChars[d] = c) - 1

\* int(s) succeeds (decimal digits only are modelled as valid)
IsIntLiteral(s) == Len(s) > 0 /\ \A i \in 1..Len(s) : IsDigit(s[i])

\* int(s)
RECURSIVE ParseInt(_)
ParseInt(s) ==
    IF s = <<>> THEN 0
    ELSE 10 * ParseInt(SubSeq(s, 1, Len(s) - 1)) + DigitVal(s[Len(s)])

----------------------------------------------------------------------------
(* Images (PIL.Image, PIL.ImageChops) *)

\* the value None
None == [mode |-> "None", w |-> 0, h |-> 0, px |-> <<>>]

\* no bounding box (getbbox returned None)
NoBox == <<>>

Pixels(w, h) == (0..(w - 1)) \X (0..(h - 1))

\* number of bands of a mode
Bands(mode) ==
    CASE mode = "L" -> 1
      [] mode = "LA" -> 2
      [] mode = "RGB" -> 3
      [] mode = "RGBA" -> 4

HasAlpha(mode) == mode \in {"LA", "RGBA"}

\* Image.new(mode, size, color)
NewImage(mode, w, h, color) ==
    [mode |-> mode, w |-> w, h |-> h, px |-> [p \in Pixels(w, h) |-> color]]

\* im.getpixel(xy)
GetPixel(im, xy) == im.px[xy]

Abs(n) == IF n < 0 THEN -n ELSE n

\* conversion of a C float to int: truncation toward zero of n / d
TruncDiv(n, d) == IF n >= 0 THEN n \div d ELSE -((-n) \div d)

\* the clipping of an 8-bit channel operation
Clip8(v) == IF v <= 0 THEN 0 ELSE IF v >= 255 THEN 255 ELSE v

\* ImageChops.difference(im1, im2): per band |a - b|
ChopDifference(im1, im2) ==
    [im1 EXCEPT !.px = [p \in DOMAIN im1.px |->
        [c \in 1..Len(im1.px[p]) |-> Abs(im1.px[p][c] - im2.px[p][c])]]]

\* ImageChops.add(im1, im2, scale, offset): per band clip((a + b) / scale + offset)
ChopAdd(im1, im2, scale, offset) ==
    [im1 EXCEPT !.px = [p \in DOMAIN im1.px |->
        [c \in 1..Len(im1.px[p]) |->
            Clip8(TruncDiv(im1.px[p][c] + im2.px[p][c] + offset * scale, scale))]]]

\* the arguments of the call of line 30
AddScale == 2
AddOffset == -100

\* The bands getbbox looks at.  The imaging library is not part of the
\* repository and the script pins no version of it: Image.getbbox() of
\* Pillow >= 7.1 looks at the alpha band only when the image has one (the
\* alpha_only = True default of Pillow >= 10.3), earlier versions look at every
\* band.  Both are behaviours of the script; `alpha` says which one the installed
\* library has.
BBoxBands(mode, alpha) ==
    IF alpha /\ HasAlpha(mode) THEN {Bands(mode)} ELSE 1..Bands(mode)

\* the pixels getbbox counts as non-zero
NonZeroPixels(im, alpha) ==
    {p \in DOMAIN im.px : \E c \in BBoxBands(im.mode, alpha) : im.px[p][c] # 0}

SetMin(S) == CHOOSE m \in S : \A n \in S : m <= n
SetMax(S) == CHOOSE m \in S : \A n \in S : m >= n

\* a variant whose right and lower edges are the last non-zero column and row
\* themselves (inclusive, where PIL's are exclusive)
GetBBox_Inclusive(im, alpha) ==
    LET nz == NonZeroPixels(im, alpha)
        xs == {p[1] : p \in nz}
        ys == {p[2] : p \in nz}
    IN  IF nz = {} THEN NoBox
        ELSE <<SetMin(xs), SetMin(ys), SetMax(xs), SetMax(ys)>>

\* im.getbbox(): <<left, upper, right, lower>> of the non-zero region, or None
GetBBox(im, alpha) ==
    LET nz == NonZeroPixels(im, alpha)
        xs == {p[1] : p \in nz}
        ys == {p[2] : p \in nz}
    IN  IF nz = {} THEN NoBox
        ELSE <<SetMin(xs), SetMin(ys), SetMax(xs) + 1, SetMax(ys) + 1>>

\* im.crop(box)
Crop(im, box) ==
    [mode |-> im.mode, w |-> box[3] - box[1], h |-> box[4] - box[2],
     px |-> [p \in Pixels(box[3] - box[1], box[4] - box[2]) |->
                im.px[<<p[1] + box[1], p[2] + box[2]>>]]]

\* the image `bg` of line 28
TrimBackground(im) == NewImage(im.mode, im.w, im.h, GetPixel(im, <<0, 0>>))

\* the image `diff` after line 30
TrimDiff(im) ==
    LET diff == ChopDifference(im, TrimBackground(im))
    IN  ChopAdd(diff, diff, AddScale, AddOffset)

\* the value `bbox` of line 31
TrimBox(im) == GetBBox(TrimDiff(im), alphaOnly)

\* lines 32-33: the crop when there is a box; a function that falls off its end returns None
TrimResult(im, bbox) == IF bbox # NoBox THEN Crop(im, bbox) ELSE None

\* trim(im)
trim(im) == TrimResult(im, TrimBox(im))

----------------------------------------------------------------------------
(* trim applied to one image *)

Modes == {"L", "RGB", "RGBA"}

\* the colours the input images are drawn from: band values on both sides of
\* the threshold (differences of 50, 100, 101, 155, 255)
Palette(mode) ==
    CASE mode = "L" -> {<<0>>, <<100>>, <<101>>, <<255>>}
      [] mode = "RGB" -> {<<0, 0, 0>>, <<100, 100, 100>>, <<0, 101, 0>>, <<255, 255, 255>>}
      [] mode = "RGBA" -> {<<0, 0, 0, 0>>, <<0, 0, 0, 255>>, <<255, 0, 0, 255>>, <<50, 50, 50, 200>>}

\* the pixels of the box <<left, upper, right, lower>>
BoxPixels(box) == (box[1]..(box[3] - 1)) \X (box[2]..(box[4] - 1))

\* the non-empty boxes inside a w x h image
Boxes(w, h) ==
    {b \in (0..w) \X (0..h) \X (0..w) \X (0..h) : b[1] < b[3] /\ b[2] < b[4]}

\* an image of colour bg with the box painted c1 and then the pixel q painted c2
Painted(mode, w, h, bg, box, c1, q, c2) ==
    [mode |-> mode, w |-> w, h |-> h,
     px |-> [p \in Pixels(w, h) |->
                IF p = q THEN c2 ELSE IF p \in BoxPixels(box) THEN c1 ELSE bg]]

\* the other component is not running
MainIdle ==
    /\ dataKind = "absent" /\ listing = <<>> /\ disk = <<>> /\ seedArg = <<>>
    /\ outKind = "absent" /\ splitKind = <<>> /\ files = <<>> /\ tree0 = <<>>
    /\ pc = "idle" /\ filenames = <<>> /\ rng = 0 /\ splits = <<>>
    /\ si = 0 /\ fi = 0 /\ log = <<>> /\ error = "" /\ prev = <<>>

TrimIdle ==
    /\ tpc = "idle" /\ tIm = None /\ tDiff = None /\ tBox = NoBox /\ tOut = None

TrimInit ==
    /\ alphaOnly \in BOOLEAN
    /\ MainIdle
    /\ tpc = "call"
    /\ \E mode \in Modes, w \in 1..MaxDim, h \in 1..MaxDim :
         \E bg \in Palette(mode), c1 \in Palette(mode), c2 \in Palette(mode),
            box \in Boxes(w, h), q \in Pixels(w, h) :
            tIm = Painted(mode, w, h, bg, box, c1, q, c2)
    /\ tDiff = None /\ tBox = NoBox /\ tOut = None

\* trim(tIm), lines 27-33
TrimCall ==
    /\ tpc = "call"
    /\ tDiff' = TrimDiff(tIm)
    /\ tBox' = TrimBox(tIm)
    /\ tOut' = trim(tIm)
    /\ tpc' = "return"
    /\ UNCHANGED <<alphaOnly, mainVars, tIm>>

TrimNext == TrimCall

TrimSpec == TrimInit /\ [][TrimNext]_vars

----------------------------------------------------------------------------
(* The command line and the data directory *)

\* args.data_dir and args.output_dir
DataDir == <<"d", "a", "t", "a">>
OutputDir == <<"o", "u", "t">>

\* the values of --seed: the default "1", another integer, and a non-integer
SeedArgs == {<<"1">>, <<"2", "3", "0">>, <<"x">>}

\* the entries of data_dir: img0.png, img1.png, ... and one entry that is not a .png
PngName(i) == <<"i", "m", "g">> \o IntToStr(i) \o <<".", "p", "n", "g">>
OtherEntry == <<"a", ".", "t", "x", "t">>
Entries(n) == <<OtherEntry>> \o [i \in 1..n |-> PngName(i - 1)]

Reverse(s) == [i \in 1..Len(s) |-> s[Len(s) + 1 - i]]

\* the orders os.listdir may return the entries in ("arbitrary order")
ListingOrders(entries) == {entries, Reverse(entries)}

\* a well-formed input: RGBA, transparent background, a column of content
GoodImage(i) ==
    [mode |-> "RGBA", w |-> 2, h |-> 2,
     px |-> [p \in Pixels(2, 2) |->
                IF p[1] = 0 THEN <<0, 0, 0, 0>>
                ELSE IF p[2] = 0 THEN <<(i * 25) % 256, 0, 255, 255>>
                ELSE <<(i * 25) % 256, 128, 0, 128>>]]

\* an RGB image (no alpha band)
RgbImage ==
    [mode |-> "RGB", w |-> 2, h |-> 1,
     px |-> [p \in Pixels(2, 1) |-> IF p[1] = 0 THEN <<255, 255, 255>> ELSE <<0, 0, 0>>]]

\* an RGBA image of one colour
UniformImage == NewImage("RGBA", 2, 2, <<255, 255, 255, 255>>)

\* a fully opaque RGBA image with content
OpaqueImage ==
    [mode |-> "RGBA", w |-> 2, h |-> 1,
     px |-> [p \in Pixels(2, 1) |->
                IF p[1] = 0 THEN <<255, 255, 255, 255>> ELSE <<0, 0, 0, 255>>]]

ImageFile(im) == [kind |-> "image", im |-> im]
CorruptFile == [kind |-> "corrupt", im |-> None]

BadKinds == {"rgb", "uniform", "opaque", "corrupt"}

BadFile(kind) ==
    CASE kind = "rgb" -> ImageFile(RgbImage)
      [] kind = "uniform" -> ImageFile(UniformImage)
      [] kind = "opaque" -> ImageFile(OpaqueImage)
      [] kind = "corrupt" -> CorruptFile

\* the contents of data_dir: n .png files, all well-formed except file `bad` (0: none)
Dataset(n, bad, kind) ==
    [path \in {PathJoin(DataDir, PngName(i - 1)) : i \in 1..n} |->
        LET i == CHOOSE j \in 1..n : path = PathJoin(DataDir, PngName(j - 1))
        IN  IF i = bad THEN BadFile(kind) ELSE ImageFile(GoodImage(i - 1))]

----------------------------------------------------------------------------
(* The output tree *)

\* a variant of the loop order
SplitNames_DevFirst == <<"dev", "train", "test">>

\* the list of line 95
SplitNames == <<"train", "dev", "test">>

SplitChars(split) ==
    CASE split = "train" -> <<"t", "r", "a", "i", "n">>
      [] split = "dev" -> <<"d", "e", "v">>
      [] split = "test" -> <<"t", "e", "s", "t">>

\* os.path.join(args.output_dir, '{}_spec'.format(split)), line 96
OutputDirSplit(split) ==
    PathJoin(OutputDir, SplitChars(split) \o <<"_", "s", "p", "e", "c">>)

NoFiles == [n \in {} |-> None]

StaleData == NewImage("RGB", 1, 1, <<7, 7, 7>>)
StaleFiles ==
    [n \in {<<"i", "m", "g", "0", ".", "j", "p", "g">>, <<"o", "l", "d", ".", "j", "p", "g">>}
        |-> StaleData]

AllSplits(v) == [s \in {"train", "dev", "test"} |-> v]

\* the output trees a run may start from
InitialTrees ==
    { [out |-> "absent", split |-> AllSplits("absent"), files |-> AllSplits(NoFiles)],
      [out |-> "dir", split |-> AllSplits("absent"), files |-> AllSplits(NoFiles)],
      [out |-> "dir", split |-> AllSplits("dir"), files |-> AllSplits(StaleFiles)],
      [out |-> "dir", split |-> [AllSplits("absent") EXCEPT !["dev"] = "file"],
       files |-> AllSplits(NoFiles)],
      [out |-> "file", split |-> AllSplits("absent"), files |-> AllSplits(NoFiles)] }

Tree == [out |-> outKind, split |-> splitKind, files |-> files]

\* a variant that takes any path for a directory (the check dropped)
IsDir_Unchecked(kind) == TRUE

\* os.path.isdir(path)
IsDir(kind) == kind = "dir"

\* os.path.exists(args.output_dir)
OutputDirExists == outKind # "absent"

\* os.path.exists(output_dir_split)
SplitDirExists(split) == outKind = "dir" /\ splitKind[split] # "absent"

\* os.mkdir(path): the exception raised ("" if none), from what the parent
\* directory and the path name
MkdirError(parentKind, kind) ==
    IF parentKind = "absent" THEN "FileNotFoundError"
    ELSE IF parentKind = "file" THEN "NotADirectoryError"
    ELSE IF kind # "absent" THEN "FileExistsError"
    ELSE ""

\* a variant that empties the directory before the file is written
Put_Cleared(dirfiles, name, data) == [n \in {name} |-> data]

\* the directory's files after a file `name` is written with `data`
Put(dirfiles, name, data) ==
    [n \in (DOMAIN dirfiles) \cup {name} |-> IF n = name THEN data ELSE dirfiles[n]]

----------------------------------------------------------------------------
(* The split: listing, sort, seeded shuffle, slices (lines 67-87) *)

PngSuffix == <<".", "p", "n", "g">>

\* [os.path.join(data_dir, f) for f in filenames if f.endswith('.png')], line 69
RECURSIVE KeepPng(_)
KeepPng(names) ==
    IF names = <<>> THEN <<>>
    ELSE IF EndsWith(Head(names), PngSuffix)
         THEN <<PathJoin(DataDir, Head(names))>> \o KeepPng(Tail(names))
         ELSE KeepPng(Tail(names))

\* the sorted list with one more string inserted
RECURSIVE Insert(_, _)
Insert(x, sorted) ==
    IF sorted = <<>> THEN <<x>>
    ELSE IF StrLess(x, Head(sorted)) THEN <<x>> \o sorted
    ELSE <<Head(sorted)>> \o Insert(x, Tail(sorted))

\* a variant that leaves the list in the order of the directory listing
SortStrings_Unsorted(list) == list

\* filenames.sort(), line 75
RECURSIVE SortStrings(_)
SortStrings(list) ==
    IF list = <<>> THEN <<>> ELSE Insert(Head(list), SortStrings(Tail(list)))

\* The generator of the random module is modelled by a linear congruential
\* generator: what matters is that its output stream is a function of the
\* seed alone.
RngModulus == 65537
RngMultiplier == 75
RngIncrement == 74

\* random.seed(a) for an integer a, line 74
SeedState(a) == a % RngModulus

RngStep(state) == (state * RngMultiplier + RngIncrement) % RngModulus

\* the value _randbelow(n) returns from generator state `state` (after one step)
RandBelow(state, n) == RngStep(state) % n

Swap(x, i, j) == [x EXCEPT ![i] = x[j], ![j] = x[i]]

\* random.shuffle(x): for i in reversed(range(1, len(x))): j = randbelow(i + 1);
\* x[i], x[j] = x[j], x[i]   (k is i + 1: positions are 1-based here)
RECURSIVE ShuffleFrom(_, _, _)
ShuffleFrom(x, k, state) ==
    IF k < 2 THEN x
    ELSE ShuffleFrom(Swap(x, k, RandBelow(state, k) + 1), k - 1, RngStep(state))

Shuffle(x, state) == ShuffleFrom(x, Len(x), state)

\* the generator state after random.shuffle of a list of n elements
RECURSIVE StateAfter(_, _)
StateAfter(n, state) == IF n < 2 THEN state ELSE StateAfter(n - 1, RngStep(state))

\* a variant that rounds to nearest, as round() would
IntOfTenths_Round(tenths, n) == (tenths * n + 5) \div 10

\* int(tenths/10 * n) for the literals 0.8 and 0.9 of lines 78-79: the double
\* nearest to 0.8 (0.9) lies above it, the product rounds to a double that is
\* never below the exact 8n/10 (9n/10) and never reaches the next integer, and
\* int() truncates
IntOfTenths(tenths, n) == (tenths * n) \div 10

\* list[a:b] and list[a:] (0-based, end exclusive)
Slice(list, a, b) == SubSeq(list, a + 1, b)

\* lines 78-87
MakeSplits(list) ==
    LET split1 == IntOfTenths(8, Len(list))
        split2 == IntOfTenths(9, Len(list))
    IN  [train |-> Slice(list, 0, split1),
         dev |-> Slice(list, split1, split2),
         test |-> Slice(list, split2, Len(list))]

----------------------------------------------------------------------------
(* deborder_and_save (lines 43-55) *)

\* Paste.c: division by 255 with rounding
Div255(a) == LET t == a + 128 IN ((t \div 256) + t) \div 256

\* Paste.c: in1 blended with in2 by an 8-bit mask
Blend8(mask, in1, in2) == Div255(in1 * (255 - mask) + in2 * mask)

\* background = Image.new("RGB", image.size, (255, 255, 255));
\* background.paste(image, mask = image.split()[3]), lines 52-53
Composite(image) ==
    [mode |-> "RGB", w |-> image.w, h |-> image.h,
     px |-> [p \in DOMAIN image.px |->
                [c \in 1..3 |-> Blend8(image.px[p][4], 255, image.px[p][c])]]]

\* a variant that drops the extension's dot too ([:-4] for [:-3])
OutputName_NoDot(filename) ==
    SubSeq(LastComponent(filename), 1, Len(LastComponent(filename)) - 4) \o <<"j", "p", "g">>

\* os.path.join(output_dir, filename.split('/')[-1][:-3]) + "jpg" relative to
\* output_dir, line 55
OutputName(filename) == DropLast3(LastComponent(filename)) \o <<"j", "p", "g">>

\* deborder_and_save(filename, output_dir): the exception raised ("" if none)
\* and the file written; dirKind is what output_dir names
deborder_and_save(filename, dirKind) ==
    LET f == disk[filename]
        image == trim(f.im)
        failed(e) == [err |-> e, name |-> <<>>, data |-> None]
    IN  IF f.kind # "image" THEN failed("UnidentifiedImageError")   \* line 45
        ELSE IF image = None THEN failed("AttributeError")         \* line 50
        ELSE IF Bands(image.mode) < 4 THEN failed("IndexError")    \* line 53
        ELSE IF dirKind # "dir" THEN failed("NotADirectoryError")  \* line 55
        ELSE [err |-> "", name |-> OutputName(filename), data |-> Composite(image)]

----------------------------------------------------------------------------
(* The script (lines 59-106) *)

NoSplits == [train |-> <<>>, dev |-> <<>>, test |-> <<>>]

Event(ev, path) == [ev |-> ev, path |-> path]

\* the program state when the interpreter enters line 59
Fresh ==
    /\ pc = "start"
    /\ filenames = <<>>
    /\ rng = 0
    /\ splits = NoSplits
    /\ si = 0
    /\ fi = 0
    /\ log = <<>>
    /\ error = ""

\* data_dir holds 0..MaxFiles .png files and one other entry; at most one of the
\* .png files (the first or the last by name) is not a well-formed RGBA image
Init ==
    /\ alphaOnly \in BOOLEAN
    /\ TrimIdle
    /\ seedArg \in SeedArgs
    /\ \E n \in 0..MaxFiles, bad \in 0..MaxFiles, kind \in BadKinds :
        /\ bad = 0 \/ bad = 1 \/ bad = n
        /\ bad = 0 => kind = "corrupt"
        /\ disk = Dataset(n, bad, kind)
        /\ \E kindOfDir \in {"dir", "file", "absent"} :
            /\ dataKind = kindOfDir
            /\ kindOfDir # "dir" => n = 0 /\ bad = 0
            /\ listing \in (IF kindOfDir = "dir" THEN ListingOrders(Entries(n)) ELSE {<<>>})
    /\ \E t \in InitialTrees :
        /\ outKind = t.out
        /\ splitKind = t.split
        /\ files = t.files
        /\ tree0 = t
    /\ prev = <<>>
    /\ Fresh

\* an uncaught exception ends the run
Raise(e) ==
    /\ pc' = "crashed"
    /\ error' = e

\* line 62
CheckDataDir ==
    /\ pc = "start"
    /\ IF IsDir(dataKind)
       THEN pc' = "list" /\ error' = error
       ELSE Raise("AssertionError")
    /\ UNCHANGED <<alphaOnly, dataKind, listing, disk, seedArg, outKind, splitKind, files,
                   tree0, filenames, rng, splits, si, fi, log, prev, trimVars>>

\* lines 67-69
ListDir ==
    /\ pc = "list"
    /\ filenames' = KeepPng(listing)
    /\ pc' = "seed"
    /\ UNCHANGED <<alphaOnly, dataKind, listing, disk, seedArg, outKind, splitKind, files,
                   tree0, rng, splits, si, fi, log, error, prev, trimVars>>

\* line 74
SeedRandom ==
    /\ pc = "seed"
    /\ IF IsIntLiteral(seedArg)
       THEN rng' = SeedState(ParseInt(seedArg)) /\ pc' = "shuffle" /\ error' = error
       ELSE rng' = rng /\ Raise("ValueError")
    /\ UNCHANGED <<alphaOnly, dataKind, listing, disk, seedArg, outKind, splitKind, files,
                   tree0, filenames, splits, si, fi, log, prev, trimVars>>

\* lines 75-76
SortAndShuffle ==
    /\ pc = "shuffle"
    /\ filenames' = Shuffle(SortStrings(filenames), rng)
    /\ rng' = StateAfter(Len(filenames), rng)
    /\ pc' = "slice"
    /\ UNCHANGED <<alphaOnly, dataKind, listing, disk, seedArg, outKind, splitKind, files,
                   tree0, splits, si, fi, log, error, prev, trimVars>>

\* lines 78-87
SliceSplits ==
    /\ pc = "slice"
    /\ splits' = MakeSplits(filenames)
    /\ pc' = "mkout"
    /\ UNCHANGED <<alphaOnly, dataKind, listing, disk, seedArg, outKind, splitKind, files,
                   tree0, filenames, rng, si, fi, log, error, prev, trimVars>>

\* lines 89-92
MakeOutputDir ==
    /\ pc = "mkout"
    /\ IF ~OutputDirExists
       THEN LET e == MkdirError("dir", outKind)   \* the parent is the working directory
            IN  IF e = ""
                THEN /\ outKind' = "dir"
                     /\ log' = Append(log, Event("mkdir", OutputDir))
                     /\ si' = 1 /\ pc' = "mksplit"
                     /\ UNCHANGED error
                ELSE /\ Raise(e)
                     /\ UNCHANGED <<outKind, log, si>>
       ELSE /\ outKind' = outKind
            /\ log' = Append(log, Event("warn", OutputDir))
            /\ si' = 1 /\ pc' = "mksplit"
            /\ UNCHANGED error
    /\ UNCHANGED <<alphaOnly, dataKind, listing, disk, seedArg, splitKind, files,
                   tree0, filenames, rng, splits, fi, prev, trimVars>>

\* where the loops of lines 95 and 103 go once file k of split number i is done
\* (k = 0: the split's directory has just been made)
AfterFile(i, k) ==
    IF k < Len(splits[SplitNames[i]]) THEN [pc |-> "file", si |-> i, fi |-> k + 1]
    ELSE IF i < Len(SplitNames) THEN [pc |-> "mksplit", si |-> i + 1, fi |-> 0]
    ELSE [pc |-> "finish", si |-> i, fi |-> k]

\* lines 96-102
MakeSplitDir ==
    /\ pc = "mksplit"
    /\ LET split == SplitNames[si]
           path == OutputDirSplit(split)
           next == AfterFile(si, 0)
       IN  IF SplitDirExists(split)
           THEN /\ log' = log \o <<Event("warn", path), Event("print", path)>>
                /\ pc' = next.pc /\ si' = next.si /\ fi' = next.fi
                /\ UNCHANGED <<splitKind, error>>
           ELSE IF MkdirError(outKind, splitKind[split]) = ""
           THEN /\ splitKind' = [splitKind EXCEPT ![split] = "dir"]
                /\ log' = log \o <<Event("mkdir", path), Event("print", path)>>
                /\ pc' = next.pc /\ si' = next.si /\ fi' = next.fi
                /\ UNCHANGED error
           ELSE /\ Raise(MkdirError(outKind, splitKind[split]))
                /\ UNCHANGED <<splitKind, log, si, fi>>
    /\ UNCHANGED <<alphaOnly, dataKind, listing, disk, seedArg, outKind, files,
                   tree0, filenames, rng, splits, prev, trimVars>>

\* a variant that catches a file's exception and goes on with the next file
ProcessFile_SkipFailed ==
    /\ pc = "file"
    /\ LET split == SplitNames[si]
           filename == splits[split][fi]
           r == deborder_and_save(filename, splitKind[split])
           next == AfterFile(si, fi)
       IN  /\ IF r.err = ""
              THEN /\ files' = [files EXCEPT ![split] = Put(files[split], r.name, r.data)]
                   /\ log' = Append(log, Event("save", PathJoin(OutputDirSplit(split), r.name)))
              ELSE UNCHANGED <<files, log>>
           /\ pc' = next.pc /\ si' = next.si /\ fi' = next.fi
           /\ UNCHANGED error
    /\ UNCHANGED <<alphaOnly, dataKind, listing, disk, seedArg, outKind, splitKind,
                   tree0, filenames, rng, splits, prev, trimVars>>

\* lines 103-104: one iteration
ProcessFile ==
    /\ pc = "file"
    /\ LET split == SplitNames[si]
           filename == splits[split][fi]
           r == deborder_and_save(filename, splitKind[split])
           next == AfterFile(si, fi)
       IN  IF r.err = ""
           THEN /\ files' = [files EXCEPT ![split] = Put(files[split], r.name, r.data)]
                /\ log' = Append(log, Event("save", PathJoin(OutputDirSplit(split), r.name)))
                /\ pc' = next.pc /\ si' = next.si /\ fi' = next.fi
                /\ UNCHANGED error
           ELSE /\ Raise(r.err)
                /\ UNCHANGED <<files, log, si, fi>>
    /\ UNCHANGED <<alphaOnly, dataKind, listing, disk, seedArg, outKind, splitKind,
                   tree0, filenames, rng, splits, prev, trimVars>>

\* line 106
Finish ==
    /\ pc = "finish"
    /\ log' = Append(log, Event("print", <<>>))
    /\ pc' = "done"
    /\ UNCHANGED <<alphaOnly, dataKind, listing, disk, seedArg, outKind, splitKind, files,
                   tree0, filenames, rng, splits, si, fi, error, prev, trimVars>>

\* the script is run again, with the same arguments, over the same data_dir and
\* whatever output tree the previous run left; the directory listing may come in
\* another order
Rerun ==
    /\ pc \in {"done", "crashed"}
    /\ listing' \in ListingOrders(listing)
    /\ prev' = IF si > 0 THEN <<[listing |-> listing, splits |-> splits]>> ELSE <<>>
    /\ tree0' = Tree
    /\ pc' = "start"
    /\ filenames' = <<>>
    /\ rng' = 0
    /\ splits' = NoSplits
    /\ si' = 0
    /\ fi' = 0
    /\ log' = <<>>
    /\ error' = ""
    /\ UNCHANGED <<alphaOnly, dataKind, disk, seedArg, outKind, splitKind, files, trimVars>>

Next ==
    \/ CheckDataDir
    \/ ListDir
    \/ SeedRandom
    \/ SortAndShuffle
    \/ SliceSplits
    \/ MakeOutputDir
    \/ MakeSplitDir
    \/ ProcessFile
    \/ Finish
    \/ Rerun

Spec == Init /\ [][Next]_vars

----------------------------------------------------------------------------
(* Properties of the split *)

Range(seq) == {seq[i] : i \in 1..Len(seq)}

NoDuplicates(seq) == Cardinality(Range(seq)) = Len(seq)

\* the .png entries of the listing, as paths: the kept input filenames
KeptInputs ==
    {PathJoin(DataDir, listing[i]) : i \in {j \in 1..Len(listing) : EndsWith(listing[j], PngSuffix)}}

\* the three slices have been built (line 87 is passed)
Sliced == pc = "mkout" \/ si > 0

\* k = floor(num * n / 10)
IsFloorOfTenths(k, num, n) == 10 * k <= num * n /\ num * n < 10 * (k + 1)

\* C1: once the slices are built, with N the number of kept input filenames,
\* len(train) = floor(0.8 N), len(train) + len(dev) = floor(0.9 N), len(test) is
\* the rest, the sizes add up to N, the three splits are pairwise disjoint and
\* without repetition, and their union is the set of kept input filenames.
C1_SplitPartition ==
    Sliced =>
        LET N == Cardinality(KeptInputs)
            tr == splits.train
            dv == splits.dev
            te == splits.test
        IN  /\ IsFloorOfTenths(Len(tr), 8, N)
            /\ IsFloorOfTenths(Len(tr) + Len(dv), 9, N)
            /\ Len(te) = N - (Len(tr) + Len(dv))
            /\ Len(tr) + Len(dv) + Len(te) = N
            /\ NoDuplicates(tr) /\ NoDuplicates(dv) /\ NoDuplicates(te)
            /\ Range(tr) \cap Range(dv) = {}
            /\ Range(tr) \cap Range(te) = {}
            /\ Range(dv) \cap Range(te) = {}
            /\ Range(tr) \cup Range(dv) \cup Range(te) = KeptInputs

\* seven kept files are sliced 5 / 1 / 1 (0.8 * 7 and 0.9 * 7 are not integers)
C1_Witness ==
    /\ Sliced
    /\ Cardinality(KeptInputs) = 7
    /\ Len(splits.train) = 5 /\ Len(splits.dev) = 1 /\ Len(splits.test) = 1

\* C2: a run over the same directory with the same seed builds the same train,
\* dev and test lists (members and order) as the run before it, whatever order
\* the directory listing came in.
C2_Deterministic ==
    (prev # <<>> /\ Sliced) => splits = prev[1].splits

\* a second run whose listing came in another order than the first run's, with
\* at least two files in train and one in dev
C2_Witness ==
    /\ prev # <<>>
    /\ Sliced
    /\ prev[1].listing # listing
    /\ Len(splits.train) >= 2
    /\ Len(splits.dev) >= 1
    /\ splits = prev[1].splits

\* C3: when data_dir is not a directory the run ends at the assertion: nothing
\* is listed, created, opened or written, and the output tree is as it was.
C3_MissingDataDir ==
    ~(dataKind = "dir") =>
        /\ pc \in {"start", "crashed"}
        /\ pc = "crashed" => error = "AssertionError"
        /\ log = <<>>
        /\ Tree = tree0
        /\ outKind = tree0.out

\* the run over a missing data_dir has failed, output_dir still absent
C3_Witness ==
    /\ dataKind = "absent"
    /\ pc = "crashed"
    /\ error = "AssertionError"
    /\ outKind = "absent"

----------------------------------------------------------------------------
(* Properties of trim *)

\* the colour trim takes for the background
BgColour(im) == im.px[<<0, 0>>]

\* no pixel differs from the background colour
AllBackground(im) == \A p \in DOMAIN im.px : im.px[p] = BgColour(im)

\* the pixels off the background colour are exactly those of the box
IsRegion(im, box) ==
    \A p \in DOMAIN im.px : (p \in BoxPixels(box)) <=> (im.px[p] # BgColour(im))

\* the image is `im` cropped to the box: the box's size and the box's pixels
IsCropOf(out, im, box) ==
    /\ out # None
    /\ out.mode = im.mode
    /\ out.w = box[3] - box[1]
    /\ out.h = box[4] - box[2]
    /\ DOMAIN out.px = Pixels(out.w, out.h)
    /\ \A p \in DOMAIN out.px : out.px[p] = im.px[<<p[1] + box[1], p[2] + box[2]>>]

\* C4 (the statement of the claim): a run never fails at a file whose image is
\* all background; trim gives such an image back unchanged.
C4_AllBackgroundHandled ==
    (pc = "crashed" /\ fi > 0) =>
        LET f == disk[splits[SplitNames[si]][fi]]
        IN  (f.kind = "image" /\ AllBackground(f.im)) => trim(f.im) = f.im

ClearlyOff(im, p) ==
    IF HasAlpha(im.mode)
    THEN Abs(im.px[p][Bands(im.mode)] - BgColour(im)[Bands(im.mode)]) > 100
    ELSE \E c \in 1..Bands(im.mode) : Abs(im.px[p][c] - BgColour(im)[c]) > 100

BoundingBox(S) ==
    IF S = {} THEN NoBox
    ELSE <<SetMin({p[1] : p \in S}), SetMin({p[2] : p \in S}),
           SetMax({p[1] : p \in S}) + 1, SetMax({p[2] : p \in S}) + 1>>

\* the pixel's difference from the background colour is below the bias in every band
BelowBias(im, p) ==
    \A c \in 1..Bands(im.mode) : Abs(im.px[p][c] - BgColour(im)[c]) < 100

\* C10 (the statement of the claim): every pixel whose difference from the
\* background colour is below 100 in every band is zero in the amplified
\* difference image, and the box of the crop is the bounding box of exactly the
\* pixels of the amplified difference image that are non-zero (in any band).
C10_ThresholdAndBox ==
    tpc = "return" =>
        /\ \A p \in DOMAIN tIm.px :
            BelowBias(tIm, p) => \A c \in 1..Bands(tIm.mode) : tDiff.px[p][c] = 0
        /\ tBox = BoundingBox({p \in DOMAIN tIm.px :
                                \E c \in 1..Bands(tIm.mode) : tDiff.px[p][c] # 0})
        /\ tBox # NoBox => IsCropOf(tOut, tIm, tBox)

----------------------------------------------------------------------------
(* Properties of the output tree *)

SplitSet == {"train", "dev", "test"}

\* the name expected for the output of an input path: the directory entry with
\* its ".png" replaced by ".jpg"
ExpectedName(path) ==
    LET e == CHOOSE x \in Range(listing) : PathJoin(DataDir, x) = path
    IN  SubSeq(e, 1, Len(e) - 4) \o <<".", "j", "p", "g">>

\* the positions of the log with an event `ev` for `path`
LogIdx(evs, path) == {j \in 1..Len(log) : log[j].ev \in evs /\ log[j].path = path}

\* path lies directly or indirectly under directory dir
IsUnder(path, dir) ==
    Len(path) > Len(dir) + 1 /\ SubSeq(path, 1, Len(dir) + 1) = dir \o <<"/">>

\* the positions of the log where a file of the split is saved
SaveIdx(split) ==
    {j \in 1..Len(log) : log[j].ev = "save" /\ IsUnder(log[j].path, OutputDirSplit(split))}

\* the run started with output_dir absent or empty
InitiallyEmpty ==
    /\ tree0.out \in {"absent", "dir"}
    /\ \A s \in SplitSet : tree0.split[s] = "absent" /\ tree0.files[s] = NoFiles

\* C6: after a run that completes into an initially empty output_dir, each split
\* folder holds exactly one file per file of its split, named by the input's
\* basename with "png" replaced by "jpg" and holding that input's composite;
\* no output is in another split's folder and distinct inputs have distinct names.
C6_OneOutputPerInput ==
    (pc = "done" /\ InitiallyEmpty) =>
        /\ \A f \in KeptInputs, g \in KeptInputs :
            f # g => ExpectedName(f) # ExpectedName(g)
        /\ \A s \in SplitSet :
            /\ DOMAIN files[s] = {ExpectedName(f) : f \in Range(splits[s])}
            /\ Cardinality(DOMAIN files[s]) = Len(splits[s])
            /\ \A f \in Range(splits[s]) :
                /\ files[s][ExpectedName(f)] = Composite(trim(disk[f].im))
                /\ \A s2 \in SplitSet \ {s} : ExpectedName(f) \notin DOMAIN files[s2]

\* ten inputs img0.png .. img9.png end as 8 / 1 / 1 files, img0.jpg among them
C6_Witness ==
    /\ pc = "done"
    /\ InitiallyEmpty
    /\ Cardinality(KeptInputs) = 10
    /\ Cardinality(DOMAIN files["train"]) = 8
    /\ Cardinality(DOMAIN files["dev"]) = 1
    /\ Cardinality(DOMAIN files["test"]) = 1
    /\ \E s \in SplitSet : <<"i", "m", "g", "0", ".", "j", "p", "g">> \in DOMAIN files[s]

\* no step of the run can fail for a reason other than the output tree
NoOtherFailure ==
    /\ dataKind = "dir"
    /\ IsIntLiteral(seedArg)
    /\ \A f \in KeptInputs : deborder_and_save(f, "dir").err = ""

\* C7: for an output_dir and split subdirectories that exist (as directories)
\* when the run starts: a warning is printed for each one the run comes to, none
\* is created again, the run does not fail because of them, a pre-existing file
\* with the name of an output this run saved holds the new output, and every
\* other pre-existing file is still there unchanged.  (A run that failed in
\* such a tree failed for another reason: the seed or one of the files.)
C7_ExistingDirsTolerated ==
    /\ (tree0.out = "dir" /\ si > 0) =>
        /\ LogIdx({"warn"}, OutputDir) # {}
        /\ LogIdx({"mkdir"}, OutputDir) = {}
    /\ \A s \in SplitSet :
        (tree0.out = "dir" /\ tree0.split[s] = "dir"
            /\ LogIdx({"print"}, OutputDirSplit(s)) # {}) =>
                /\ LogIdx({"warn"}, OutputDirSplit(s)) # {}
                /\ LogIdx({"mkdir"}, OutputDirSplit(s)) = {}
    /\ (pc = "crashed" /\ tree0.out = "dir"
            /\ \A s \in SplitSet : tree0.split[s] \in {"absent", "dir"}) => ~NoOtherFailure
    /\ \A s \in SplitSet : \A name \in DOMAIN tree0.files[s] :
        /\ name \in DOMAIN files[s]
        /\ IF LogIdx({"save"}, PathJoin(OutputDirSplit(s), name)) # {}
           THEN \E f \in Range(splits[s]) :
                    /\ ExpectedName(f) = name
                    /\ files[s][name] = Composite(trim(disk[f].im))
           ELSE files[s][name] = tree0.files[s][name]

\* a run into an existing tree with stale files has completed: four warnings,
\* the stale img0.jpg overwritten in one folder and kept in the others, old.jpg kept
C7_Witness ==
    /\ pc = "done"
    /\ tree0.out = "dir"
    /\ \A s \in SplitSet : tree0.split[s] = "dir" /\ tree0.files[s] = StaleFiles
    /\ Cardinality({j \in 1..Len(log) : log[j].ev = "warn"}) = 4
    /\ \E s \in SplitSet : files[s][<<"i", "m", "g", "0", ".", "j", "p", "g">>] # StaleData
    /\ \E s \in SplitSet : files[s][<<"i", "m", "g", "0", ".", "j", "p", "g">>] = StaleData
    /\ \A s \in SplitSet : files[s][<<"o", "l", "d", ".", "j", "p", "g">>] = StaleData

----------------------------------------------------------------------------
(* Properties of the run's order and of its failures *)

\* the files in processing order, each with its split: train, dev, test
Tagged(split) == [k \in 1..Len(splits[split]) |-> [split |-> split, file |-> splits[split][k]]]
ProcessingOrder == Tagged("train") \o Tagged("dev") \o Tagged("test")

\* the position in ProcessingOrder of the file the loop is at
SplitNumber(split) == CASE split = "train" -> 1 [] split = "dev" -> 2 [] split = "test" -> 3
CurrentSplit == SplitNames[si]
CurrentPos ==
    fi + (IF SplitNumber(CurrentSplit) > 1 THEN Len(splits.train) ELSE 0)
       + (IF SplitNumber(CurrentSplit) > 2 THEN Len(splits.dev) ELSE 0)

\* where the output of an item of ProcessingOrder is saved
SavePath(item) == PathJoin(OutputDirSplit(item.split), ExpectedName(item.file))

\* the paths saved by this run, in order
RECURSIVE SavedPaths(_)
SavedPaths(events) ==
    IF events = <<>> THEN <<>>
    ELSE IF Head(events).ev = "save" THEN <<Head(events).path>> \o SavedPaths(Tail(events))
    ELSE SavedPaths(Tail(events))

\* the file is as it was when the run started (absent, or with the same contents)
Untouched(split, name) ==
    IF name \in DOMAIN tree0.files[split]
    THEN name \in DOMAIN files[split] /\ files[split][name] = tree0.files[split][name]
    ELSE name \notin DOMAIN files[split]

\* a run that failed at a file: the files before it in processing order, and no
\* others, were saved (in that order) and their outputs are on disk; the failing
\* file and those after it are untouched; "Done" was not printed
C8_CrashState ==
    (pc = "crashed" /\ fi > 0) =>
        /\ error # ""
        /\ SavedPaths(log) = [k \in 1..(CurrentPos - 1) |-> SavePath(ProcessingOrder[k])]
        /\ \A k \in 1..(CurrentPos - 1) :
            LET item == ProcessingOrder[k]
            IN  /\ ExpectedName(item.file) \in DOMAIN files[item.split]
                /\ files[item.split][ExpectedName(item.file)] = Composite(trim(disk[item.file].im))
        /\ \A k \in CurrentPos..Len(ProcessingOrder) :
            Untouched(ProcessingOrder[k].split, ExpectedName(ProcessingOrder[k].file))
        /\ LogIdx({"print"}, <<>>) = {}

\* a file the pipeline fails on ends the run at that file, nothing written; a
\* failed run takes no further step (only a new run of the script may follow)
C8_CrashStep ==
    /\ (pc = "file" /\ deborder_and_save(splits[CurrentSplit][fi], splitKind[CurrentSplit]).err # "")
        => (pc' = "crashed" /\ error' # "" /\ files' = files /\ si' = si /\ fi' = fi)
    /\ pc = "crashed" => (pc' = "start" \/ UNCHANGED vars)
    /\ pc' = "done" => \A k \in 1..Len(ProcessingOrder) :
            deborder_and_save(ProcessingOrder[k].file, "dir").err = ""

\* C8: a failure while processing a file is not caught and aborts the run: no
\* retry, no later file processed or written, earlier outputs stay, and the run
\* never completes.
C8_FailureAborts == [](C8_CrashState) /\ [][C8_CrashStep]_vars

\* a run failed at an image without a fourth band, after saving at least two
\* files and with at least one file left
C8_Witness ==
    /\ pc = "crashed"
    /\ error = "IndexError"
    /\ CurrentPos > 2
    /\ CurrentPos < Len(ProcessingOrder)
    /\ Len(SavedPaths(log)) = CurrentPos - 1

\* C9: output_dir is there before any split subdirectory is made; a split's
\* subdirectory is there (made or warned about) before any of its files is
\* saved; the next split's subdirectory is made or warned about only after
\* every file of the split before it is saved; train files are saved before dev
\* files, and dev files before test files.
C9_SplitOrder ==
    LET dirIdx(s) == LogIdx({"mkdir", "warn"}, OutputDirSplit(s))
        outIdx == LogIdx({"mkdir", "warn"}, OutputDir)
        before(a, b) ==
            /\ \A j \in dirIdx(b) :
                /\ \E i \in dirIdx(a) : i < j
                /\ Cardinality({i \in SaveIdx(a) : i < j}) = Len(splits[a])
            /\ \A i \in SaveIdx(a), j \in SaveIdx(b) : i < j
            /\ SaveIdx(b) # {} => Cardinality(SaveIdx(a)) = Len(splits[a])
    IN  /\ \A s \in SplitSet :
            /\ \A j \in dirIdx(s) : outKind = "dir" /\ \E i \in outIdx : i < j
            /\ \A j \in SaveIdx(s) : splitKind[s] = "dir" /\ \E i \in dirIdx(s) : i < j
            /\ splitKind[s] # tree0.split[s] => outKind = "dir"
        /\ before("train", "dev")
        /\ before("dev", "test")
        /\ before("train", "test")

\* a completed run with files in all three splits, all directories made by it
C9_Witness ==
    /\ pc = "done"
    /\ tree0.out = "absent"
    /\ Len(splits.train) >= 2 /\ Len(splits.dev) >= 1 /\ Len(splits.test) >= 1
    /\ Cardinality(SaveIdx("train")) = Len(splits.train)
    /\ Cardinality(SaveIdx("dev")) = Len(splits.dev)
    /\ Cardinality(SaveIdx("test")) = Len(splits.test)

====
